---- MODULE Spec2Model ----
(***************************************************************************)
(* Codimension IDE introspection plugin                                    *)
(*   cdmplugins/ideintrospection/__init__.py                               *)
(*   cdmplugins/ideintrospection/introspectionconfigdialog.py              *)
(*                                                                         *)
(* The plugin object, the part of the host IDE it acts on (main toolbar,   *)
(* Qt signal connections, objects scheduled for deletion, the settings     *)
(* file), the traced heap, and the two output sinks (standard output and   *)
(* the logging module).                                                    *)
(***************************************************************************)
EXTENDS Integers, Sequences, FiniteSets, TLC

(***************************************************************************)
(* Bounds of the model.                                                    *)
(***************************************************************************)
\* largest version component the host passes to isIDEVersionCompatible
MaxVerNum == 11
\* largest number of traced allocations in one IDE session
MaxHeap == 2
\* largest number of report handlers run in one IDE session
MaxReports == 2

(***************************************************************************)
(* IntrospectionPluginConfigDialog.LOG / CONSOLE / NEW_TAB                 *)
(***************************************************************************)
LOG == 0
CONSOLE == 1
NEW_TAB == 2

(***************************************************************************)
(* Python values that can stand in self.__where or in the settings file.   *)
(* A number is kept as twice its value, so that 1.5 (a JSON number that is *)
(* no integer) is representable; Python compares int and float by value.   *)
(***************************************************************************)
PyInt(n) == [kind |-> "num", twice |-> 2 * n]
PyHalf(k) == [kind |-> "num", twice |-> k]
PyStr == [kind |-> "str", twice |-> 0]

\* a < b of two Python values: "TypeError" when one of them is no number
PyLess(a, b) ==
    IF a.kind = "num" /\ b.kind = "num"
    THEN (IF a.twice < b.twice THEN "True" ELSE "False")
    ELSE "TypeError"

\* a != b of two Python values
PyNotEqual(a, b) == a.kind # b.kind \/ a.twice # b.twice

PLUGIN_HOME_DIR == PyStr

(***************************************************************************)
(* distutils.version.StrictVersion, as isIDEVersionCompatible uses it.     *)
(* A version string is a sequence of one-character strings.                *)
(***************************************************************************)
DigitChars == <<"0", "1", "2", "3", "4", "5", "6", "7", "8", "9">>

IsDigit(c) == \E i \in 1..Len(DigitChars) : DigitChars[i] = c

DigitVal(c) == (CHOOSE i \in 1..Len(DigitChars) : DigitChars[i] = c) - 1

AllDigits(s) == Len(s) > 0 /\ \A i \in 1..Len(s) : IsDigit(s[i])

\* int(s) of a string of digits
RECURSIVE ToInt(_)
ToInt(s) ==
    IF Len(s) = 0 THEN 0
    ELSE 10 * ToInt(SubSeq(s, 1, Len(s) - 1)) + DigitVal(s[Len(s)])

\* s.split(sep)
RECURSIVE Split(_, _)
Split(s, sep) ==
    IF \E i \in 1..Len(s) : s[i] = sep
    THEN LET i == CHOOSE j \in 1..Len(s) :
                      s[j] = sep /\ \A k \in 1..(j - 1) : s[k] # sep
         IN  <<SubSeq(s, 1, i - 1)>> \o Split(SubSeq(s, i + 1, Len(s)), sep)
    ELSE <<s>>

\* where the pre-release tag ([ab]N) starts, 0 when there is none
PreTagAt(s) ==
    IF \E i \in 1..Len(s) : s[i] \in {"a", "b"}
    THEN CHOOSE i \in 1..Len(s) :
             s[i] \in {"a", "b"} /\ \A k \in 1..(i - 1) : s[k] \notin {"a", "b"}
    ELSE 0

\* StrictVersion(s): version_re  ^(\d+)\.(\d+)(\.(\d+))?([ab](\d+))?$
\* no match raises ValueError; a missing patch level is 0
StrictVersion(s) ==
    LET p     == PreTagAt(s)
        body  == IF p = 0 THEN s ELSE SubSeq(s, 1, p - 1)
        tag   == IF p = 0 THEN <<>> ELSE SubSeq(s, p + 1, Len(s))
        parts == Split(body, ".")
        ok    == /\ Len(parts) \in {2, 3}
                 /\ \A i \in 1..Len(parts) : AllDigits(parts[i])
                 /\ (p # 0 => AllDigits(tag))
    IN  IF ~ok
        THEN [valid |-> FALSE, version |-> <<0, 0, 0>>, prerelease |-> FALSE]
        ELSE [valid      |-> TRUE,
              version    |-> <<ToInt(parts[1]), ToInt(parts[2]),
                               IF Len(parts) = 3 THEN ToInt(parts[3]) ELSE 0>>,
              prerelease |-> p # 0]

\* tuple comparison a >= b of two (major, minor, patch) tuples
TupleGE(a, b) ==
    \/ a[1] > b[1]
    \/ a[1] = b[1] /\ a[2] > b[2]
    \/ a[1] = b[1] /\ a[2] = b[2] /\ a[3] >= b[3]

\* StrictVersion._cmp(a, b) >= 0, b a release: equal numbers with a
\* pre-release tag on a sort before the release
VersionGE(a, b) ==
    IF a.version = b.version THEN ~a.prerelease ELSE TupleGE(a.version, b.version)

\* the characters of a version string in code point order
CharOrder == <<".", "0", "1", "2", "3", "4", "5", "6", "7", "8", "9", "a", "b">>

CharOrd(c) == CHOOSE i \in 1..Len(CharOrder) : CharOrder[i] = c

\* text comparison a >= b of two strings, character by character
RECURSIVE TextGE(_, _)
TextGE(a, b) ==
    IF Len(b) = 0 THEN TRUE
    ELSE IF Len(a) = 0 THEN FALSE
    ELSE IF a[1] # b[1] THEN CharOrd(a[1]) > CharOrd(b[1])
    ELSE TextGE(Tail(a), Tail(b))

MinIDEVersion == <<"4", ".", "7", ".", "0">>

\* the versions compared as text
IsIDEVersionCompatibleAsText(ideVersion) ==
    IF ~StrictVersion(ideVersion).valid THEN "ValueError"
    ELSE IF TextGE(ideVersion, MinIDEVersion) THEN "True" ELSE "False"

\* IntrospectionPlugin.isIDEVersionCompatible
IsIDEVersionCompatible(ideVersion) ==
    IF ~StrictVersion(ideVersion).valid THEN "ValueError"
    ELSE IF VersionGE(StrictVersion(ideVersion), StrictVersion(MinIDEVersion))
         THEN "True" ELSE "False"

(***************************************************************************)
(* The settings file  <settingsDir>/introspection.plugin.json              *)
(* exists: os.path.exists(configFile); json: the object stored in it, as a *)
(* set of <<key, value>> pairs.                                            *)
(***************************************************************************)
NoFile == [exists |-> FALSE, json |-> {}]
FileOf(object) == [exists |-> TRUE, json |-> object]

\* loadJSON(configFile, ..., defaultSettings)
LoadJSON(file) == file.json

\* saveJSON(configFile, {'where': self.__where}, ...)
SaveConfiguredWhere(w) == FileOf({<<"where", w>>})

\* IntrospectionPlugin.__getConfiguredWhere
GetConfiguredWhere(file) ==
    LET defaultSettings == {<<"where", PyInt(CONSOLE)>>}
        values == IF ~file.exists THEN defaultSettings ELSE LoadJSON(file)
    IN  IF ~\E kv \in values : kv[1] = "where"
        THEN PyInt(CONSOLE)                                  \* KeyError
        ELSE LET value == (CHOOSE kv \in values : kv[1] = "where")[2]
             IN  IF PyLess(value, PyInt(LOG)) = "TypeError"
                 THEN PyInt(CONSOLE)                         \* TypeError
                 ELSE IF \/ PyLess(value, PyInt(LOG)) = "True"
                         \/ PyLess(PyInt(NEW_TAB), value) = "True"
                      THEN PyInt(CONSOLE)
                      ELSE value

(***************************************************************************)
(* The configuration dialog (introspectionconfigdialog.py).                *)
(***************************************************************************)
NoDialog == [open |-> FALSE, checked |-> "none", touched |-> FALSE]

RadioButtons == {"logRButton", "consoleRButton", "newtabRButton"}

\* IntrospectionPluginConfigDialog.__init__(where, parent): the radio button
\* checked at construction; where == LOG / where == CONSOLE compare by value
DialogInit(w) ==
    [open    |-> TRUE,
     checked |-> IF ~PyNotEqual(w, PyInt(LOG)) THEN "logRButton"
                 ELSE IF ~PyNotEqual(w, PyInt(CONSOLE)) THEN "consoleRButton"
                 ELSE "newtabRButton",
     touched |-> FALSE]

\* IntrospectionPluginConfigDialog.getCheckedOption
GetCheckedOption(d) ==
    IF d.checked = "logRButton" THEN LOG
    ELSE IF d.checked = "consoleRButton" THEN CONSOLE
    ELSE NEW_TAB

(***************************************************************************)
(* Qt objects the plugin creates, by name, and what the toolbar calls of   *)
(* activate return.                                                        *)
(***************************************************************************)
Unset == "unset"        \* the attribute was never assigned
None == "None"

PluginActions == {"separatorAction", "memWidgetAction", "diffAction", "refAction"}

\* QToolBar.insertSeparator(before) returns the separator's QAction
InsertSeparator == "separatorAction"
\* QToolBar.insertWidget(before, widget) returns the widget's QAction
InsertWidget == "memWidgetAction"
\* QWidget.insertAction(before, action) returns nothing
InsertAction(action) == None

\* the diff action left unconnected
ActivateConnectionsNoDiff ==
    {<<"fullAction", "onFullMemoryReport">>,
     <<"reducedAction", "onReducedMemoryReport">>,
     <<"refAction", "referenceBrowser">>}

\* the signal connections activate and __createMemoryMenu make
ActivateConnections ==
    {<<"fullAction", "onFullMemoryReport">>,
     <<"reducedAction", "onReducedMemoryReport">>,
     <<"diffAction", "memoryDiff">>,
     <<"refAction", "referenceBrowser">>}

\* what each handler of the plugin does
UtilityOf(handler) ==
    IF handler \in {"onFullMemoryReport", "onReducedMemoryReport"}
    THEN "objectSummaries"
    ELSE IF handler = "memoryDiff" THEN "heapDiff"
    ELSE "referenceBrowsing"

(***************************************************************************)
(* State.                                                                  *)
(***************************************************************************)
VARIABLES
    where,          \* self.__where
    active,         \* WizardInterface: self.ide is set (activate .. deactivate)
    handles,        \* self.__separator, __memSummaryButton, __diffButton,
                    \* __refButton, fullAct, reducedAct
    tracker,        \* self.__tracker and the summary it diffs against
    lastSnapshot,   \* self.__lastSnapshot
    memMenu,        \* the actions of the memory button's menu
    toolbar,        \* the plugin's actions in the IDE main toolbar
    connected,      \* <<action, handler>>: triggered is connected to handler
    deleted,        \* objects deleteLater() was called on
    heap,           \* allocations traced since tracemalloc.start()
    stdout,         \* what was printed
    log,            \* what went to logging.error
    reportsRun,     \* report handlers run in this IDE session
    configFile,     \* the settings file
    dlg,            \* the configuration dialog while configure runs exec_()
    op,             \* the last operation and how it ended
    ideVersion,     \* the argument of the last isIDEVersionCompatible call
    compatible      \* and what it returned

vars == <<where, active, handles, tracker, lastSnapshot, memMenu, toolbar,
          connected, deleted, heap, stdout, log, reportsRun, configFile, dlg,
          op, ideVersion, compatible>>

qtVars == <<handles, memMenu, toolbar, connected, deleted>>
memVars == <<tracker, lastSnapshot, heap>>
outVars == <<stdout, log, reportsRun>>
verVars == <<ideVersion, compatible>>

Op(name, result, detail) == [name |-> name, result |-> result, detail |-> detail]

\* the numbers a settings file may hold under 'where': LOG - 1 .. NEW_TAB + 1
\* in steps of one half
StoredNumbers == {PyHalf(k) : k \in (2 * LOG - 2)..(2 * NEW_TAB + 2)}

\* the settings files the IDE may start with
InitialConfigFiles ==
    {NoFile, FileOf({}), FileOf({<<"where", PyStr>>})}
        \cup {FileOf({<<"where", v>>}) : v \in StoredNumbers}

\* IntrospectionPlugin.__init__ in a fresh IDE process
NewSession ==
    /\ where = PyInt(CONSOLE)
    /\ active = FALSE
    /\ handles = [separator |-> Unset, memSummaryButton |-> Unset,
                  diffButton |-> Unset, refButton |-> Unset,
                  fullAct |-> Unset, reducedAct |-> Unset]
    /\ tracker = [state |-> Unset, s0 |-> 0]
    /\ lastSnapshot = [taken |-> FALSE, size |-> 0]
    /\ memMenu = {}
    /\ toolbar = {}
    /\ connected = {}
    /\ deleted = {}
    /\ heap = 0
    /\ stdout = <<>>
    /\ log = <<>>
    /\ reportsRun = 0
    /\ dlg = NoDialog

Init ==
    /\ NewSession
    /\ configFile \in InitialConfigFiles
    /\ op = Op("init", "ok", "")
    /\ ideVersion = <<>>
    /\ compatible = Unset

(***************************************************************************)
(* activate / deactivate                                                   *)
(***************************************************************************)
\* IntrospectionPlugin.activate (with __createMemoryMenu)
Activate ==
    /\ ~active
    /\ ~dlg.open
    /\ active' = TRUE                       \* WizardInterface.activate
    /\ where' = GetConfiguredWhere(configFile)
    /\ memMenu' = {"fullAction", "reducedAction"}
    /\ toolbar' = toolbar \cup PluginActions
    /\ connected' = connected \cup ActivateConnections
    /\ handles' = [separator        |-> InsertSeparator,
                   memSummaryButton |-> InsertWidget,
                   diffButton       |-> InsertAction("diffAction"),
                   refButton        |-> InsertAction("refAction"),
                   fullAct          |-> "fullAction",
                   reducedAct       |-> "reducedAction"]
    /\ tracker' = [state |-> "tracker", s0 |-> heap]
    /\ lastSnapshot' = [taken |-> TRUE, size |-> heap]
    /\ op' = Op("activate", "ok", "")
    /\ UNCHANGED <<deleted, heap, outVars, configFile, dlg, verVars>>

\* obj.triggered.disconnect(handler): how it ends
DisconnectResult(obj, handler) ==
    IF obj \in {Unset, None} THEN "AttributeError"
    ELSE IF <<obj, handler>> \notin connected THEN "TypeError"
    ELSE "ok"

\* the disconnect calls of deactivate, in order
DeactivateDisconnects ==
    << <<handles.fullAct, "onFullMemoryReport">>,
       <<handles.reducedAct, "onReducedMemoryReport">>,
       <<handles.diffButton, "memoryDiff">>,
       <<handles.refButton, "referenceBrowser">> >>

\* IntrospectionPlugin.deactivate: it stops at the first call that raises
Deactivate ==
    /\ active
    /\ ~dlg.open
    /\ tracker' = [tracker EXCEPT !.state = None]
    /\ LET calls  == DeactivateDisconnects
           fails  == {i \in 1..Len(calls) :
                         DisconnectResult(calls[i][1], calls[i][2]) # "ok"}
           raised == fails # {}
           first  == IF raised
                     THEN CHOOSE i \in fails : \A j \in fails : i <= j
                     ELSE Len(calls) + 1
       IN  /\ connected' = connected \ {calls[i] : i \in 1..(first - 1)}
           /\ IF raised
              THEN /\ op' = Op("deactivate",
                               DisconnectResult(calls[first][1], calls[first][2]),
                               "")
                   /\ UNCHANGED <<toolbar, deleted, active>>
              ELSE /\ toolbar' = toolbar \ {handles.memSummaryButton,
                                            handles.separator}
                   /\ deleted' = deleted \cup {handles.memSummaryButton,
                                               handles.separator,
                                               handles.diffButton,
                                               handles.refButton}
                   /\ active' = FALSE       \* WizardInterface.deactivate
                   /\ op' = Op("deactivate", "ok", "")
    /\ UNCHANGED <<where, handles, lastSnapshot, memMenu, heap, outVars,
                   configFile, dlg, verVars>>

(***************************************************************************)
(* configure: the dialog is modal, so between its opening and its closing  *)
(* the user can only act on the dialog.                                    *)
(***************************************************************************)
\* configure, up to dlg.exec_()
Configure ==
    /\ active
    /\ ~dlg.open
    /\ dlg' = DialogInit(PLUGIN_HOME_DIR)
    /\ op' = Op("configure", "open", "")
    /\ UNCHANGED <<where, active, qtVars, memVars, outVars, configFile, verVars>>

\* the user checks a radio button of the open dialog
CheckRadioButton(r) ==
    /\ dlg.open
    /\ dlg' = [dlg EXCEPT !.checked = r, !.touched = TRUE]
    /\ op' = Op("configure", "open", r)
    /\ UNCHANGED <<where, active, qtVars, memVars, outVars, configFile, verVars>>

\* the new destination stored in the file before it is taken over
ConfigureAcceptedSaveFirst(newWhere) ==
    IF PyNotEqual(newWhere, where)
    THEN [where |-> newWhere, file |-> SaveConfiguredWhere(where), saved |-> TRUE]
    ELSE [where |-> where, file |-> configFile, saved |-> FALSE]

\* configure, after dlg.exec_() returned QDialog.Accepted
ConfigureAccepted(newWhere) ==
    IF PyNotEqual(newWhere, where)
    THEN [where |-> newWhere, file |-> SaveConfiguredWhere(newWhere), saved |-> TRUE]
    ELSE [where |-> where, file |-> configFile, saved |-> FALSE]

\* OK pressed: the rest of configure
DialogAccept ==
    /\ dlg.open
    /\ LET r == ConfigureAccepted(PyInt(GetCheckedOption(dlg)))
       IN  /\ where' = r.where
           /\ configFile' = r.file
           /\ op' = Op("configure", "accepted", IF r.saved THEN "saved" ELSE "kept")
    /\ dlg' = NoDialog
    /\ UNCHANGED <<active, qtVars, memVars, outVars, verVars>>

\* Cancel pressed or the dialog closed
DialogReject ==
    /\ dlg.open
    /\ dlg' = NoDialog
    /\ op' = Op("configure", "rejected", "")
    /\ UNCHANGED <<where, active, qtVars, memVars, outVars, configFile, verVars>>

(***************************************************************************)
(* The report handlers.                                                    *)
(***************************************************************************)
\* the action is shown to the user: in the toolbar, or in the menu of the
\* memory button that is in the toolbar
Shown(action) ==
    \/ action \in toolbar
    \/ action \in memMenu /\ "memWidgetAction" \in toolbar

\* the user can trigger handler through action
Triggerable(action, handler) ==
    Shown(action) /\ <<action, handler>> \in connected

Line(what, n) == [what |-> what, n |-> n]

\* the report written to the destination self.__where names
PrintedByWhere(lines) ==
    IF ~PyNotEqual(where, PyInt(LOG))
    THEN [stdout |-> stdout, log |-> log \o lines]
    ELSE [stdout |-> stdout \o lines, log |-> log]

\* print(...) and summary.print_(...): the sinks after lines are printed
Printed(lines) == [stdout |-> stdout \o lines, log |-> log]

\* logging.error(str(exc))
LoggedError(sink) == Append(sink, Line("error", 0))

\* tracemalloc.take_snapshot()
TakeSnapshot == heap

\* Snapshot.compare_to(old, 'traceback'): the size difference it reports
CompareTo(new, old) == new - old

\* __onFullMemoryReport; raises: a pympler call raises
OnFullMemoryReport(raises) ==
    /\ ~dlg.open
    /\ Triggerable("fullAction", "onFullMemoryReport")
    /\ reportsRun < MaxReports
    /\ reportsRun' = reportsRun + 1
    /\ IF raises
       THEN /\ log' = LoggedError(log)
            /\ stdout' = stdout
            /\ op' = Op("fullReport", "raised", "")
       ELSE /\ stdout' = Printed(<<Line("summary", 0)>>).stdout
            /\ log' = Printed(<<Line("summary", 0)>>).log
            /\ op' = Op("fullReport", "ok", "")
    /\ UNCHANGED <<where, active, qtVars, memVars, configFile, dlg, verVars>>

\* __onReducedMemoryReport (with display_top); raises: a pympler call raises
OnReducedMemoryReport(raises) ==
    /\ ~dlg.open
    /\ Triggerable("reducedAction", "onReducedMemoryReport")
    /\ reportsRun < MaxReports
    /\ reportsRun' = reportsRun + 1
    /\ IF raises
       THEN /\ log' = LoggedError(log)
            /\ stdout' = stdout
            /\ op' = Op("reducedReport", "raised", "")
       ELSE /\ LET lines == <<Line("reducedSummary", 0),
                              Line("tracemallocTop", TakeSnapshot)>>
               IN  /\ stdout' = Printed(lines).stdout
                   /\ log' = Printed(lines).log
            /\ op' = Op("reducedReport", "ok", "")
    /\ UNCHANGED <<where, active, qtVars, memVars, configFile, dlg, verVars>>

\* __memoryDiff
MemoryDiff ==
    /\ ~dlg.open
    /\ Triggerable("diffAction", "memoryDiff")
    /\ reportsRun < MaxReports
    /\ reportsRun' = reportsRun + 1
    /\ LET currentSnapshot == TakeSnapshot
           last            == TakeSnapshot      \* self.__lastSnapshot = take_snapshot()
           topStats        == CompareTo(currentSnapshot, last)
           first           == Printed(<<Line("tracemallocDiff", topStats)>>)
       IN  /\ lastSnapshot' = [taken |-> TRUE, size |-> last]
           /\ IF tracker.state = "tracker"
              THEN \* SummaryTracker.print_diff(): against the summary of the
                   \* last call, which the new summary replaces
                   /\ stdout' = first.stdout \o
                                  <<Line("trackerDiff", heap - tracker.s0)>>
                   /\ log' = first.log
                   /\ tracker' = [tracker EXCEPT !.s0 = heap]
                   /\ op' = Op("memoryDiff", "ok", "")
              ELSE \* self.__tracker is None: AttributeError, caught
                   /\ stdout' = first.stdout
                   /\ log' = LoggedError(first.log)
                   /\ tracker' = tracker
                   /\ op' = Op("memoryDiff", "raised", "")
    /\ UNCHANGED <<where, active, qtVars, heap, configFile, dlg, verVars>>

\* __referenceBrowser
ReferenceBrowser ==
    /\ ~dlg.open
    /\ Triggerable("refAction", "referenceBrowser")
    /\ op' = Op("referenceBrowser", "ok", "")
    /\ UNCHANGED <<where, active, qtVars, memVars, outVars, configFile, dlg,
                   verVars>>

(***************************************************************************)
(* The environment.                                                        *)
(***************************************************************************)
\* the IDE allocates memory while tracemalloc traces
Allocate ==
    /\ active
    /\ heap < MaxHeap
    /\ heap' = heap + 1
    /\ UNCHANGED <<where, active, qtVars, tracker, lastSnapshot, outVars,
                   configFile, dlg, op, verVars>>

\* the IDE is closed and started again: a new plugin object, the same file
Restart ==
    /\ ~dlg.open
    /\ where' = PyInt(CONSOLE)
    /\ active' = FALSE
    /\ handles' = [separator |-> Unset, memSummaryButton |-> Unset,
                   diffButton |-> Unset, refButton |-> Unset,
                   fullAct |-> Unset, reducedAct |-> Unset]
    /\ tracker' = [state |-> Unset, s0 |-> 0]
    /\ lastSnapshot' = [taken |-> FALSE, size |-> 0]
    /\ memMenu' = {}
    /\ toolbar' = {}
    /\ connected' = {}
    /\ deleted' = {}
    /\ heap' = 0
    /\ stdout' = <<>>
    /\ log' = <<>>
    /\ reportsRun' = 0
    /\ dlg' = NoDialog
    /\ op' = Op("init", "ok", "")
    /\ UNCHANGED <<configFile, verVars>>

Next ==
    \/ Activate
    \/ Deactivate
    \/ Configure
    \/ \E r \in RadioButtons : CheckRadioButton(r)
    \/ DialogAccept
    \/ DialogReject
    \/ \E raises \in BOOLEAN : OnFullMemoryReport(raises)
    \/ \E raises \in BOOLEAN : OnReducedMemoryReport(raises)
    \/ MemoryDiff
    \/ ReferenceBrowser
    \/ Allocate
    \/ Restart

Spec == Init /\ [][Next]_vars

(***************************************************************************)
(* The host asks isIDEVersionCompatible before it activates the plugin.    *)
(***************************************************************************)
VerNums == 0..MaxVerNum

\* str(n)
RECURSIVE Dec(_)
Dec(n) ==
    IF n < 10 THEN <<DigitChars[n + 1]>>
    ELSE Dec(n \div 10) \o <<DigitChars[(n % 10) + 1]>>

\* every major.minor and major.minor.patch, with the numbers it was written from
DottedVersions ==
    {<<Dec(a) \o <<".">> \o Dec(b), <<a, b, 0>> >> : a, b \in VerNums}
        \cup {<<Dec(a) \o <<".">> \o Dec(b) \o <<".">> \o Dec(c), <<a, b, c>> >> :
                 a, b, c \in VerNums}

\* the version strings the host may pass: dotted versions, pre-releases of
\* them, and strings that are no version
VersionInputs ==
    {v[1] : v \in DottedVersions}
        \cup {v[1] \o <<"a", "1">> : v \in DottedVersions}
        \cup {Dec(a) : a \in VerNums}
        \cup {Dec(a) \o <<".">> : a \in VerNums}

\* the host's call, made once when it loads the plugin
CheckVersion(s) ==
    /\ compatible = Unset
    /\ ideVersion' = s
    /\ compatible' = IsIDEVersionCompatible(s)
    /\ UNCHANGED <<where, active, qtVars, memVars, outVars, configFile, dlg, op>>

VersionNext == \E s \in VersionInputs : CheckVersion(s)

\* the plugin is loaded; what the settings file holds plays no part yet
VersionInit == Init /\ configFile = NoFile

VersionSpec == VersionInit /\ [][VersionNext]_vars

(***************************************************************************)
(* C1  isIDEVersionCompatible(v) is True exactly when v, a dotted version  *)
(* major.minor[.patch] compared number by number, is at least 4.7.0, and   *)
(* False for every lower version.                                          *)
(***************************************************************************)
\* a >= 4.7.0, number by number
AtLeast_4_7_0(n) ==
    \/ n[1] > 4
    \/ n[1] = 4 /\ n[2] > 7
    \/ n[1] = 4 /\ n[2] = 7 /\ n[3] >= 0

C1_VersionCompatible ==
    \A v \in DottedVersions :
        ideVersion = v[1] =>
            compatible = IF AtLeast_4_7_0(v[2]) THEN "True" ELSE "False"

\* 4.10.0 was checked and found compatible
C1_Witness ==
    /\ ideVersion = <<"4", ".", "1", "0", ".", "0">>
    /\ compatible = "True"

(***************************************************************************)
(* C2  After a successful activate the plugin exposes its utilities        *)
(* through the main toolbar, each reachable by a toolbar button or menu    *)
(* entry wired to a handler.                                               *)
(***************************************************************************)
\* utility u can be triggered by the user
Exposed(u) ==
    \E c \in connected : Shown(c[1]) /\ UtilityOf(c[2]) = u

\* C2 as stated: all four utilities, the debugger breakpoint trigger among
\* them, are exposed after activate
C2_FourUtilities ==
    op.name = "activate" =>
        \A u \in {"objectSummaries", "heapDiff", "referenceBrowsing",
                  "debuggerBreakpoint"} : Exposed(u)

\* C2 as amended: after activate object summaries, heap diffs and reference
\* browsing are exposed, and no debugger breakpoint trigger is
C2_ThreeUtilities ==
    op.name = "activate" =>
        /\ \A u \in {"objectSummaries", "heapDiff", "referenceBrowsing"} :
               Exposed(u)
        /\ ~Exposed("debuggerBreakpoint")

\* activate has run and the plugin's items are in the toolbar
C2_Witness ==
    /\ op.name = "activate"
    /\ active
    /\ PluginActions \subseteq toolbar

(***************************************************************************)
(* C3  deactivate after a successful activate runs to completion without   *)
(* raising: all four handlers are disconnected, the separator and the      *)
(* memory button are out of the toolbar, the base class deactivate has     *)
(* run.                                                                    *)
(***************************************************************************)
C3_DeactivateCompletes ==
    op.name = "deactivate" =>
        /\ op.result = "ok"
        /\ connected \cap ActivateConnections = {}
        /\ toolbar \cap {"separatorAction", "memWidgetAction"} = {}
        /\ {"diffAction", "refAction"} \subseteq deleted
        /\ ~active

(***************************************************************************)
(* C4  memory diff prints the difference between the snapshot taken at     *)
(* this invocation and the baseline stored by the previous invocation (or  *)
(* by activate), and stores this invocation's snapshot as the new          *)
(* baseline.                                                               *)
(***************************************************************************)
C4_DiffAgainstBaseline ==
    [][(op'.name = "memoryDiff" /\ reportsRun' = reportsRun + 1) =>
          /\ \E i \in (Len(stdout) + 1)..Len(stdout') :
                 /\ stdout'[i].what = "tracemallocDiff"
                 /\ stdout'[i].n = heap - lastSnapshot.size
          /\ lastSnapshot'.size = heap]_vars

(***************************************************************************)
(* C5  Every report operation (full report, reduced report, memory diff)   *)
(* prints its report to standard output whatever the configured            *)
(* destination is; nothing of a report goes to the log.                    *)
(***************************************************************************)
ReportLines(name) ==
    IF name = "fullReport" THEN {"summary"}
    ELSE IF name = "reducedReport" THEN {"reducedSummary", "tracemallocTop"}
    ELSE {"tracemallocDiff", "trackerDiff"}

C5_ReportsToStdout ==
    [][reportsRun' = reportsRun + 1 =>
          LET new == SubSeq(stdout', Len(stdout) + 1, Len(stdout'))
          IN  /\ SubSeq(stdout', 1, Len(stdout)) = stdout
              /\ \A i \in 1..Len(new) : new[i].what \in ReportLines(op'.name)
              /\ (op'.result = "ok" \/ op'.name = "memoryDiff") => Len(new) > 0
              /\ \A i \in 1..Len(log') : log'[i].what = "error"]_vars

\* a report was printed while the destination was LOG
C5_Witness ==
    /\ where = PyInt(LOG)
    /\ op.name = "fullReport"
    /\ op.result = "ok"
    /\ Len(stdout) > 0
    /\ log = <<>>

(***************************************************************************)
(* C6  configure changes state only when the dialog is accepted with an    *)
(* option v different from the current destination: the destination        *)
(* becomes v, the file holds {'where': v}, and a later activate reads v    *)
(* back. Cancelled, or accepted with the current destination: destination  *)
(* and file are unchanged.                                                 *)
(***************************************************************************)
Destinations == {LOG, CONSOLE, NEW_TAB}

OptionOf(radio) ==
    IF radio = "logRButton" THEN LOG
    ELSE IF radio = "consoleRButton" THEN CONSOLE
    ELSE NEW_TAB

SavedFile(v) == [exists |-> TRUE, json |-> {<<"where", PyInt(v)>>}]

C6_ConfigureSaveLoad ==
    [][/\ (dlg.open /\ ~dlg'.open) =>
             LET v == OptionOf(dlg.checked)
             IN  IF op'.result = "accepted" /\ PyInt(v) # where
                 THEN where' = PyInt(v) /\ configFile' = SavedFile(v)
                 ELSE where' = where /\ configFile' = configFile
       /\ \A v \in Destinations :
             (op'.name = "activate" /\ ~active /\ configFile = SavedFile(v))
                 => where' = PyInt(v)
       /\ (~dlg.open /\ dlg'.open) => (where' = where /\ configFile' = configFile)
      ]_vars

\* the dialog was accepted with LOG checked, and LOG is stored
C6_Witness ==
    /\ op = Op("configure", "accepted", "saved")
    /\ where = PyInt(LOG)
    /\ configFile = SavedFile(LOG)

(***************************************************************************)
(* C7  In every reachable state the configured destination is one of LOG,  *)
(* CONSOLE, NEW_TAB.                                                       *)
(***************************************************************************)
C7_WhereIsDestination == where \in {PyInt(v) : v \in Destinations}

(***************************************************************************)
(* C8  The configuration dialog opens with the radio button of the         *)
(* current destination checked: getCheckedOption on an untouched dialog    *)
(* returns the current destination.                                        *)
(***************************************************************************)
C8_DialogShowsCurrent ==
    (dlg.open /\ ~dlg.touched) => PyInt(GetCheckedOption(dlg)) = where

====
